---- MODULE Spec2Model ----
(***************************************************************************)
(* Model of the coco-frontend admin console: JWT storage and decoding,     *)
(* the AuthProvider state, the route guard, the Login page and the         *)
(* fetch-based ApiService with its timeout timer.                          *)
(***************************************************************************)
EXTENDS Integers, Sequences, FiniteSets, TLC

(***************************************************************************)
(* Bounds                                                                  *)
(***************************************************************************)
\* largest exp claim (in seconds) carried by a modelled token
MaxExp == 1
\* number of ApiService calls issued in one behaviour
MaxCalls == 1

(***************************************************************************)
(* Program constants                                                       *)
(***************************************************************************)
API_TIMEOUT == 30000
MsPerSecond == 1000

(***************************************************************************)
(* Strings.  A string is a sequence of symbols; the symbol "." is the dot  *)
(* character and every other symbol stands for a run of characters that    *)
(* contains no dot (a base64url chunk).                                    *)
(***************************************************************************)
Ch(c, n) == [c |-> c, n |-> n]
Dot == Ch(".", 0)
\* what localStorage.getItem returns for a missing key (JavaScript null)
NoToken == << Ch("null", 0) >>

\* the payload chunks: what they are is fixed by Atob and JsonParse below
PayloadChunks ==
  { Ch("badB64", 0), Ch("notJson", 0), Ch("jsonNull", 0), Ch("jsonNum", 0),
    Ch("objNoExp", 0), Ch("objStrExp", 0) }
  \cup { Ch("objExp", e) : e \in 0..MaxExp }

Jwt(p) == << Ch("hdr", 0), Dot, p, Dot, Ch("sig", 0) >>

\* every token string of the model
Tokens ==
  { << >>,                                   \* the empty string
    << Ch("garbage", 0) >>,                  \* no dot at all
    << Ch("hdr", 0), Dot, Ch("objExp", MaxExp) >>,            \* two parts
    << Ch("hdr", 0), Dot, Ch("objExp", MaxExp), Dot, Ch("sig", 0), Dot, Ch("x", 0) >>,
    << Ch("hdr", 0), Dot, Dot, Ch("sig", 0) >> }              \* empty payload
  \cup { Jwt(p) : p \in PayloadChunks }

\* the tokens a backend answers a login with
LoginTokens ==
  { << >>, Jwt(Ch("objNoExp", 0)), Jwt(Ch("objExp", MaxExp)) }

\* JavaScript truthiness of a string
StrTruthy(s) == s # NoToken /\ Len(s) > 0

(***************************************************************************)
(* String.prototype.split('.')                                             *)
(***************************************************************************)
RECURSIVE SplitFrom(_, _, _)
SplitFrom(s, i, cur) ==
  IF i > Len(s) THEN << cur >>
  ELSE IF s[i] = Dot THEN << cur >> \o SplitFrom(s, i + 1, << >>)
  ELSE SplitFrom(s, i + 1, Append(cur, s[i]))

Split(s) == SplitFrom(s, 1, << >>)

(***************************************************************************)
(* JSON values.  t is the JavaScript type of the value; "throw" marks a     *)
(* call that raised.  expT is typeof value.exp.                            *)
(***************************************************************************)
JVal(t, expT, exp, name) == [t |-> t, expT |-> expT, exp |-> exp, username |-> name]
JNull == JVal("null", "undefined", 0, "undefined")
JThrow == JVal("throw", "undefined", 0, "undefined")

\* atob(payload) followed by JSON.parse: the value, or JThrow when either raises
AtobJsonParse(payload) ==
  IF Len(payload) # 1 THEN JThrow          \* atob("") = "", JSON.parse("") raises
  ELSE LET k == payload[1] IN
    CASE k.c = "badB64"    -> JThrow       \* atob raises InvalidCharacterError
      [] k.c = "notJson"   -> JThrow       \* JSON.parse raises SyntaxError
      [] k.c = "jsonNull"  -> JNull
      [] k.c = "jsonNum"   -> JVal("number", "undefined", 0, "undefined")
      [] k.c = "objNoExp"  -> JVal("object", "undefined", 0, "alice")
      [] k.c = "objStrExp" -> JVal("object", "string", 1, "alice")
      [] k.c = "objExp"    -> JVal("object", "number", k.n, "alice")
      [] OTHER             -> JThrow

\* JavaScript truthiness of a decoded value
Truthy(v) == v.t \in {"object", "number"}

(***************************************************************************)
(* utils/jwt                                                               *)
(***************************************************************************)
decodeToken(token) ==
  LET parts == Split(token) IN
    IF Len(parts) # 3 THEN JNull
    ELSE LET decoded == AtobJsonParse(parts[2]) IN
      IF decoded = JThrow THEN JNull ELSE decoded

isTokenExpiredStrict(token, t) ==
  LET decoded == decodeToken(token) IN
    IF ~Truthy(decoded) \/ decoded.expT # "number" THEN TRUE
    ELSE t > decoded.exp * MsPerSecond

isTokenExpired(token, t) ==
  LET decoded == decodeToken(token) IN
    IF ~Truthy(decoded) \/ decoded.expT # "number" THEN TRUE
    ELSE t >= decoded.exp * MsPerSecond

isAuthenticated(stored, t) ==
  IF ~StrTruthy(stored) THEN FALSE ELSE ~isTokenExpired(stored, t)

(***************************************************************************)
(* Routes (App.tsx)                                                        *)
(***************************************************************************)
NoPath == "none"
HomePath == "/"
LoginPath == "/login"
AdminPaths == {"/admin", "/admin/profile"}
Paths == {HomePath, LoginPath} \cup AdminPaths

\* a router location: the pathname and the pathname of location.state.from
Loc(p, f) == [pathname |-> p, from |-> f]

(***************************************************************************)
(* AuthContext values                                                      *)
(***************************************************************************)
NullUser == [set |-> FALSE, username |-> "undefined"]
UserOf(decoded) == [set |-> TRUE, username |-> decoded.username]
isLoggedIn(u) == u # NullUser

(***************************************************************************)
(* ApiService values                                                       *)
(***************************************************************************)
NoHeader == [scheme |-> "none", token |-> NoToken]
Bearer(token) == [scheme |-> "Bearer", token |-> token]

Statuses == {200, 401, 500}
Ok(status) == status >= 200 /\ status <= 299

SessionExpired == "Session expired. Please login again."
RequestTimeout == "Request timeout"
AnErrorOccurred == "An error occurred"
FailedToFetch == "Failed to fetch"
UnexpectedEndOfJson == "Unexpected end of JSON input"

\* a response body: the content-type header and the text
JsonType == "application/json; charset=utf-8"
ContentTypes == {JsonType, "text/html", "null"}
BodyTexts ==
  { "", "null", "{}", "{\"message\":\"\"}", "{\"message\":\"server message\"}" }
Bodies == [contentType : ContentTypes, text : BodyTexts]
EmptyBody == [contentType |-> "null", text |-> ""]

\* contentType && contentType.includes('application/json')
IsJson(contentType) == contentType = JsonType

\* a value read from a body; its message field is Undefined when it has none
Undefined == "undefined"
Data(kind, message, text) == [kind |-> kind, message |-> message, text |-> text]
NoData == Data("undefined", Undefined, "")

\* response.json(): the parsed text, or a SyntaxError
responseJson(text) ==
  CASE text = "" -> Data("SyntaxError", Undefined, "")
    [] text = "null" -> Data("null", Undefined, text)
    [] text = "{}" -> Data("object", Undefined, text)
    [] text = "{\"message\":\"\"}" -> Data("object", "", text)
    [] OTHER -> Data("object", "server message", text)

\* response.text()
responseText(text) == Data("string", Undefined, text)

\* data?.message || 'An error occurred'
messageOr(data, fallback) ==
  IF data.message \in {Undefined, ""} THEN fallback ELSE data.message

NoResult ==
  [settled |-> "none", status |-> 0, message |-> "", bodyRead |-> FALSE,
   data |-> NoData]
Resolved(status, data) ==
  [settled |-> "resolved", status |-> status, message |-> "", bodyRead |-> TRUE,
   data |-> data]
Rejected(status, message, bodyRead) ==
  [settled |-> "rejected", status |-> status, message |-> message,
   bodyRead |-> bodyRead, data |-> NoData]

VARIABLES
  storage,      \* localStorage[TOKEN_KEY]: a token string or NoToken
  user,         \* AuthProvider state: user
  loading,      \* AuthProvider state: loading
  location,     \* the router location
  screen,       \* what the matched route renders
  loginForm,    \* Login page state: error and isLoading
  now,          \* Date.now(), in milliseconds
  requests,     \* the ApiService calls that have not returned yet
  nCalls,       \* number of ApiService calls made
  nFetches,     \* number of HTTP requests handed to fetch
  windowHref,   \* a document navigation started by window.location.href
  requested,    \* history: the protected path last refused, until a login succeeds
  lastOp        \* the operation that made the last step, with its outcome

\* the state of the components that are followed on their own: a response
\* handed to handleResponse, a useDebounce hook, a search section, a modal
\* form and a list page with its backend
VARIABLES
  response,     \* the Response handleResponse was last called with
  hook,         \* useDebounce: value, delay, debouncedValue and its timers
  section,      \* a search section: query, results, dropdown, pending searches
  modal,        \* a modal form: mode, form data, selection, error
  page,         \* a list page: the list shown, loading, error, pending calls
  server        \* the backend's rows of the entity the page lists

uiVars == << response, hook, section, modal, page, server >>

vars == << storage, user, loading, location, screen, loginForm, now,
           requests, nCalls, nFetches, windowHref, requested, lastOp, uiVars >>

\* a component that is not mounted
Unmounted == [mounted |-> FALSE]

Op(op, id, token, result) == [op |-> op, id |-> id, token |-> token, result |-> result]

(***************************************************************************)
(* components/Auth/ProtectedRoute and the route table                      *)
(***************************************************************************)
ProtectedRouteNoLoading(ld, loggedIn) ==
  IF ~loggedIn THEN "redirect" ELSE "children"

ProtectedRoute(ld, loggedIn) ==
  IF ld THEN "spinner"
  ELSE IF ~loggedIn THEN "redirect"
  ELSE "children"

Render(loc, ld, u) ==
  IF loc.pathname \in AdminPaths THEN ProtectedRoute(ld, isLoggedIn(u))
  ELSE IF loc.pathname = LoginPath
    THEN (IF isLoggedIn(u) THEN "loginRedirect" ELSE "loginForm")
  ELSE "home"

\* effects are flushed before the next event is handled
Idle == ~loading /\ screen \notin {"redirect", "loginRedirect"}

InitialForm == [error |-> "", isLoading |-> FALSE]

\* leaving /login unmounts the Login page: its state is dropped and the
\* continuations of its pending submits no longer reach a mounted form
LeavesLogin(newPath) == location.pathname = LoginPath /\ newPath # LoginPath
FormAfter(newPath, form) == IF LeavesLogin(newPath) THEN InitialForm ELSE form
Detach(r) == [r EXCEPT !.formAlive = FALSE]
RequestsAfter(newPath, reqs) ==
  IF LeavesLogin(newPath) THEN { Detach(r) : r \in reqs } ELSE reqs

Init ==
  /\ storage \in {NoToken} \cup LoginTokens
  /\ user = NullUser
  /\ loading = TRUE
  /\ location \in { Loc(p, NoPath) : p \in Paths }
  /\ screen = Render(location, loading, user)
  /\ loginForm = InitialForm
  /\ now = 0
  /\ requests = {}
  /\ nCalls = 0
  /\ nFetches = 0
  /\ windowHref = NoPath
  /\ requested = NoPath
  /\ lastOp = Op("mount", 0, NoToken, NoResult)
  /\ response = Unmounted
  /\ hook = Unmounted
  /\ section = Unmounted
  /\ modal = Unmounted
  /\ page = Unmounted
  /\ server = {}

(***************************************************************************)
(* AuthProvider                                                            *)
(***************************************************************************)
\* the user state initAuth leaves, from the stored token and the clock
initAuthUserNoExpiry(stored, t, u) ==
  IF StrTruthy(stored)
    THEN LET decoded == decodeToken(stored) IN
      IF Truthy(decoded) THEN UserOf(decoded) ELSE u
    ELSE u

initAuthUser(stored, t, u) ==
  IF isAuthenticated(stored, t)
    THEN IF StrTruthy(stored)
      THEN LET decoded == decodeToken(stored) IN
        IF Truthy(decoded) THEN UserOf(decoded) ELSE u
      ELSE u
    ELSE u

InitAuth ==
  /\ loading
  /\ user' = initAuthUser(storage, now, user)
  /\ loading' = FALSE
  /\ screen' = Render(location, loading', user')
  /\ lastOp' = Op("initAuth", 0, storage, NoResult)
  /\ UNCHANGED << storage, location, loginForm, now, requests, nCalls, nFetches, windowHref, requested >>
  /\ UNCHANGED uiVars

\* the user state login(token) leaves
loginUser(token, u) ==
  LET decoded == decodeToken(token) IN
    IF Truthy(decoded) THEN UserOf(decoded) ELSE u

\* setToken(token): the stored value afterwards
setTokenOtherKey(token) == NoToken

setToken(token) == token

\* logout(): removeToken() and setUser(null)
logoutKeepsToken(stored, u) == [storage |-> stored, user |-> NullUser]

logout(stored, u) == [storage |-> NoToken, user |-> NullUser]

(***************************************************************************)
(* Navigation                                                              *)
(***************************************************************************)
\* a link of the Navbar or the sidebar, or the back button
Navigate(p) ==
  /\ Idle
  /\ location' = Loc(p, NoPath)
  /\ loginForm' = FormAfter(p, loginForm)
  /\ requests' = RequestsAfter(p, requests)
  /\ screen' = Render(location', loading, user)
  /\ lastOp' = Op("navigate", 0, NoToken, NoResult)
  /\ UNCHANGED << storage, user, loading, now, nCalls, nFetches, windowHref, requested >>
  /\ UNCHANGED uiVars

\* <Navigate to="/login" state={{ from: location }} replace />
redirectDropsFrom(loc) == Loc(LoginPath, NoPath)

redirectTarget(loc) == Loc(LoginPath, loc.pathname)

ProtectedRedirect ==
  /\ screen = "redirect"
  /\ location' = redirectTarget(location)
  /\ screen' = Render(location', loading, user)
  /\ requested' = location.pathname
  /\ lastOp' = Op("protectedRedirect", 0, NoToken, NoResult)
  /\ UNCHANGED << storage, user, loading, loginForm, now, requests, nCalls,
                  nFetches, windowHref >>
  /\ UNCHANGED uiVars

\* location.state?.from?.pathname || '/admin'
afterLoginPath(from) == IF from = NoPath THEN "/admin" ELSE from

\* Login rendered while already logged in
LoginRedirect ==
  /\ screen = "loginRedirect"
  /\ LET target == afterLoginPath(location.from) IN
       /\ location' = Loc(target, NoPath)
       /\ loginForm' = FormAfter(target, loginForm)
       /\ requests' = RequestsAfter(target, requests)
  /\ screen' = Render(location', loading, user)
  /\ lastOp' = Op("loginRedirect", 0, NoToken, NoResult)
  /\ UNCHANGED << storage, user, loading, now, nCalls, nFetches, windowHref, requested >>
  /\ UNCHANGED uiVars

\* Navbar.handleLogout: logout(); navigate('/login')
NavbarLogout ==
  /\ Idle
  /\ isLoggedIn(user)
  /\ LET out == logout(storage, user) IN
       /\ storage' = out.storage
       /\ user' = out.user
  /\ location' = Loc(LoginPath, NoPath)
  /\ UNCHANGED << loginForm, requests >>
  /\ screen' = Render(location', loading, user')
  /\ lastOp' = Op("logout", 0, NoToken, NoResult)
  /\ UNCHANGED << loading, now, nCalls, nFetches, windowHref, requested >>
  /\ UNCHANGED uiVars

\* Profile: <button onClick={logout}>
ProfileLogout ==
  /\ Idle
  /\ screen = "children"
  /\ location.pathname = "/admin/profile"
  /\ LET out == logout(storage, user) IN
       /\ storage' = out.storage
       /\ user' = out.user
  /\ screen' = Render(location, loading, user')
  /\ lastOp' = Op("logout", 0, NoToken, NoResult)
  /\ UNCHANGED << loading, location, loginForm, now, requests, nCalls, nFetches,
                  windowHref, requested >>
  /\ UNCHANGED uiVars

(***************************************************************************)
(* The document: a load after window.location.href, and a reload           *)
(***************************************************************************)
PageLoad ==
  /\ windowHref # NoPath
  /\ location' = Loc(windowHref, NoPath)
  /\ windowHref' = NoPath
  /\ user' = NullUser
  /\ loading' = TRUE
  /\ loginForm' = InitialForm
  /\ requests' = {}
  /\ screen' = Render(location', loading', user')
  /\ lastOp' = Op("mount", 0, NoToken, NoResult)
  /\ UNCHANGED << storage, now, nCalls, nFetches, requested >>
  /\ UNCHANGED uiVars

Reload ==
  /\ Idle
  /\ windowHref = NoPath
  /\ user' = NullUser
  /\ loading' = TRUE
  /\ loginForm' = InitialForm
  /\ requests' = {}
  /\ screen' = Render(location, loading', user')
  /\ lastOp' = Op("mount", 0, NoToken, NoResult)
  /\ UNCHANGED << storage, location, now, nCalls, nFetches, windowHref, requested >>
  /\ UNCHANGED uiVars

(***************************************************************************)
(* services/api: ApiService                                                *)
(***************************************************************************)
\* the Authorization header of getHeaders(customHeaders)
getHeadersAnyString(custom, stored) ==
  IF stored # NoToken THEN Bearer(stored) ELSE custom

getHeaders(custom, stored) ==
  IF StrTruthy(stored) THEN Bearer(stored) ELSE custom

\* request(): the call as it stands once fetchWithTimeout has started fetch;
\* elapsed is the time the armed timer has run, followed up to its delay
request(id, kind, from, stored) ==
  [ id |-> id, kind |-> kind, from |-> from, formAlive |-> kind = "login",
    auth |-> getHeaders(NoHeader, stored),
    delay |-> API_TIMEOUT, elapsed |-> 0, timerArmed |-> TRUE,
    phase |-> "pending", status |-> 0, aborted |-> FALSE ]

\* fetchWithTimeout, fetch resolved: clearTimeout(timeoutId); return response
fetchResolvedKeepsTimer(r, status) ==
  [r EXCEPT !.phase = "settled", !.status = status]

fetchResolved(r, status) ==
  [r EXCEPT !.phase = "settled", !.status = status, !.timerArmed = FALSE]

\* fetchWithTimeout, fetch rejected: clearTimeout(timeoutId); translate AbortError
fetchRejected(errorName) ==
  IF errorName = "AbortError" THEN Rejected(408, RequestTimeout, FALSE)
  ELSE Rejected(0, FailedToFetch, FALSE)

\* request(), catch (error): log in debug mode and throw error
requestCatchRetries(error) == [thrown |-> error, refetch |-> TRUE]

requestCatch(error) == [thrown |-> error, refetch |-> FALSE]

\* handleResponse(response): what it removes, where it sends the document,
\* and how the call settles
handleResponseKeepsToken(status, body) ==
  IF status = 401
    THEN [removeToken |-> FALSE, href |-> LoginPath,
          result |-> Rejected(401, SessionExpired, FALSE)]
  ELSE LET data == IF IsJson(body.contentType) THEN responseJson(body.text)
                   ELSE responseText(body.text) IN
    IF data.kind = "SyntaxError"
      THEN [removeToken |-> FALSE, href |-> NoPath,
            result |-> Rejected(0, UnexpectedEndOfJson, TRUE)]
    ELSE IF ~Ok(status)
      THEN [removeToken |-> FALSE, href |-> NoPath,
            result |-> Rejected(status, messageOr(data, AnErrorOccurred), TRUE)]
    ELSE [removeToken |-> FALSE, href |-> NoPath, result |-> Resolved(status, data)]

handleResponse(status, body) ==
  IF status = 401
    THEN [removeToken |-> TRUE, href |-> LoginPath,
          result |-> Rejected(401, SessionExpired, FALSE)]
  ELSE LET data == IF IsJson(body.contentType) THEN responseJson(body.text)
                   ELSE responseText(body.text) IN
    IF data.kind = "SyntaxError"
      THEN [removeToken |-> FALSE, href |-> NoPath,
            result |-> Rejected(0, UnexpectedEndOfJson, TRUE)]
    ELSE IF ~Ok(status)
      THEN [removeToken |-> FALSE, href |-> NoPath,
            result |-> Rejected(status, messageOr(data, AnErrorOccurred), TRUE)]
    ELSE [removeToken |-> FALSE, href |-> NoPath, result |-> Resolved(status, data)]

\* Login.handleSubmit up to the await
LoginSubmit ==
  /\ Idle
  /\ screen = "loginForm"
  /\ ~loginForm.isLoading
  /\ nCalls < MaxCalls
  /\ loginForm' = [error |-> "", isLoading |-> TRUE]
  /\ requests' = requests \cup
       { request(nCalls + 1, "login", location.from, storage) }
  /\ nCalls' = nCalls + 1
  /\ nFetches' = nFetches + 1
  /\ lastOp' = Op("loginSubmit", nCalls + 1, NoToken, NoResult)
  /\ UNCHANGED << storage, user, loading, location, screen, now, windowHref, requested >>
  /\ UNCHANGED uiVars

\* an admin page fetching its list: on mount, or when Retry is pressed
ApiGet ==
  /\ Idle
  /\ screen = "children"
  /\ nCalls < MaxCalls
  /\ requests' = requests \cup
       { request(nCalls + 1, "data", NoPath, storage) }
  /\ nCalls' = nCalls + 1
  /\ nFetches' = nFetches + 1
  /\ lastOp' = Op("apiGet", nCalls + 1, NoToken, NoResult)
  /\ UNCHANGED << storage, user, loading, location, screen, loginForm, now, windowHref, requested >>
  /\ UNCHANGED uiVars

\* fetch resolves with a response
FetchSettle(r, status) ==
  /\ Idle
  /\ r.phase = "pending"
  /\ requests' = (requests \ {r}) \cup { fetchResolved(r, status) }
  /\ lastOp' = Op("fetchSettle", r.id, NoToken, NoResult)
  /\ UNCHANGED << storage, user, loading, location, screen, loginForm, now,
                  nCalls, nFetches, windowHref, requested >>
  /\ UNCHANGED uiVars

\* the caller's continuation of a call that threw
CallFailed(r, op, error, removeToken, href) ==
  LET c == requestCatch(error) IN
  IF c.refetch
    THEN /\ requests' = (requests \ {r}) \cup
              { request(r.id, r.kind, r.from, storage) }
         /\ nFetches' = nFetches + 1
         /\ lastOp' = Op("refetch", r.id, NoToken, NoResult)
         /\ UNCHANGED << storage, user, loading, location, screen, loginForm,
                         windowHref, requested >>
    ELSE /\ requests' = requests \ {r}
         /\ nFetches' = nFetches
         /\ storage' = IF removeToken THEN NoToken ELSE storage
         /\ windowHref' = IF href # NoPath THEN href ELSE windowHref
         /\ loginForm' = IF r.kind = "login" /\ r.formAlive
                           THEN [error |-> c.thrown.message, isLoading |-> FALSE]
                           ELSE loginForm
         /\ lastOp' = Op(op, r.id, NoToken, c.thrown)
         /\ UNCHANGED << user, loading, location, screen, requested >>

\* fetch rejects on its own: a network error
FetchNetworkError(r) ==
  /\ Idle
  /\ r.phase = "pending"
  /\ CallFailed(r, "networkError", fetchRejected("TypeError"), FALSE, NoPath)
  /\ UNCHANGED << now, nCalls >>
  /\ UNCHANGED uiVars

\* the timer of fetchWithTimeout fires: controller.abort()
TimerFire(r) ==
  /\ Idle
  /\ r.timerArmed
  /\ r.elapsed >= r.delay
  /\ IF r.phase = "pending"
       THEN CallFailed(r, "timeout", fetchRejected("AbortError"), FALSE, NoPath)
       ELSE /\ requests' = (requests \ {r}) \cup
                 { [r EXCEPT !.timerArmed = FALSE, !.aborted = TRUE] }
            /\ lastOp' = Op("abortSettled", r.id, NoToken, NoResult)
            /\ UNCHANGED << storage, user, loading, location, screen, loginForm,
                            nFetches, windowHref, requested >>
  /\ UNCHANGED << now, nCalls >>
  /\ UNCHANGED uiVars

\* Login.handleSubmit after the await: login(token); navigate(from)
LoginSucceeded(r, token, data) ==
  LET target == afterLoginPath(r.from) IN
  /\ storage' = setToken(token)
  /\ user' = loginUser(token, user)
  /\ location' = Loc(target, NoPath)
  /\ loginForm' = FormAfter(target, loginForm)
  /\ requests' = RequestsAfter(target, requests \ {r})
  /\ screen' = Render(location', loading, user')
  /\ lastOp' = Op("login", r.id, token, Resolved(r.status, data))
  /\ requested' = NoPath
  /\ UNCHANGED << loading, nFetches, windowHref >>

\* handleResponse on the response of a settled fetch, then the caller
HandleResponse(r, body, token) ==
  /\ Idle
  /\ r.phase = "settled"
  /\ LET h == handleResponse(r.status, body) IN
       IF h.result.settled = "rejected"
         THEN /\ token = NoToken
              /\ body = EmptyBody \/ r.status # 401
              /\ CallFailed(r, "callFailed", h.result, h.removeToken, h.href)
       ELSE IF r.kind = "login"
         THEN /\ h.result.data.kind = "object"
              /\ h.result.data.message = Undefined
              /\ token # NoToken
              /\ LoginSucceeded(r, token, h.result.data)
       ELSE /\ token = NoToken
            /\ requests' = requests \ {r}
            /\ lastOp' = Op("callSucceeded", r.id, NoToken, h.result)
            /\ UNCHANGED << storage, user, loading, location, screen, loginForm,
                            nFetches, windowHref, requested >>
  /\ UNCHANGED << now, nCalls >>
  /\ UNCHANGED uiVars

(***************************************************************************)
(* Time.  Date.now() is followed up to Horizon, the instant by which every *)
(* modelled token has expired.  A timer is followed by whether its delay   *)
(* has run out: no delay runs out before Horizon, and timers run out in    *)
(* the order they were armed.                                              *)
(***************************************************************************)
Horizon == MaxExp * MsPerSecond

Armed == { r \in requests : r.timerArmed }
Due == { r \in Armed : r.elapsed >= r.delay }

\* the instants at which a modelled token expires, and the one before each
Instants ==
  { e * MsPerSecond - 1 : e \in 1..MaxExp } \cup { e * MsPerSecond : e \in 0..MaxExp }

\* the clock reaches the next instant; no timer is due
Tick ==
  /\ Due = {}
  /\ \E t \in Instants :
       /\ t > now
       /\ \A u \in Instants : u > now => t <= u
       /\ now' = t
  /\ lastOp' = Op("tick", 0, NoToken, NoResult)
  /\ UNCHANGED << storage, user, loading, location, screen, loginForm, requests,
                  nCalls, nFetches, windowHref, requested >>
  /\ UNCHANGED uiVars

\* the delay of a timer runs out
TimeoutElapses(r) ==
  /\ r \in Armed \ Due
  /\ \A q \in Armed \ Due : q.id >= r.id
  /\ r.delay >= Horizon
  /\ now' = Horizon
  /\ requests' = (requests \ {r}) \cup { [r EXCEPT !.elapsed = r.delay] }
  /\ lastOp' = Op("timeoutElapses", r.id, NoToken, NoResult)
  /\ UNCHANGED << storage, user, loading, location, screen, loginForm,
                  nCalls, nFetches, windowHref, requested >>
  /\ UNCHANGED uiVars

Next ==
  \/ InitAuth
  \/ \E p \in Paths : Navigate(p)
  \/ ProtectedRedirect
  \/ LoginRedirect
  \/ NavbarLogout
  \/ ProfileLogout
  \/ PageLoad
  \/ Reload
  \/ LoginSubmit
  \/ ApiGet
  \/ \E r \in requests : \E status \in Statuses : FetchSettle(r, status)
  \/ \E r \in requests : FetchNetworkError(r)
  \/ \E r \in requests : TimerFire(r)
  \/ \E r \in requests : \E m \in Bodies : \E t \in LoginTokens \cup {NoToken} :
       HandleResponse(r, m, t)
  \/ Tick
  \/ \E r \in requests : TimeoutElapses(r)

Spec == Init /\ [][Next]_vars

(***************************************************************************)
(* handleResponse on its own: every status with every body                 *)
(***************************************************************************)
ResponseStatuses == {200, 201, 204, 299, 300, 400, 401, 404, 500}

\* the state of the components a specification does not follow
AuthAtRest ==
  /\ user = NullUser
  /\ loading = FALSE
  /\ location = Loc(HomePath, NoPath)
  /\ screen = "home"
  /\ loginForm = InitialForm
  /\ now = 0
  /\ requests = {}
  /\ nCalls = 0
  /\ nFetches = 0
  /\ requested = NoPath
  /\ lastOp = Op("mount", 0, NoToken, NoResult)

authVars == << user, loading, location, screen, loginForm, now, requests,
               nCalls, nFetches, requested >>

InitApi ==
  /\ AuthAtRest
  /\ storage \in {NoToken} \cup LoginTokens
  /\ windowHref = NoPath
  /\ response = Unmounted
  /\ hook = Unmounted
  /\ section = Unmounted
  /\ modal = Unmounted
  /\ page = Unmounted
  /\ server = {}

\* handleResponse(response) with its effects on the token and the document
Respond(status, body) ==
  LET h == handleResponse(status, body) IN
  /\ response' = [mounted |-> TRUE, status |-> status, body |-> body]
  /\ storage' = IF h.removeToken THEN NoToken ELSE storage
  /\ windowHref' = IF h.href # NoPath THEN h.href ELSE windowHref
  /\ lastOp' = Op("handleResponse", 0, NoToken, h.result)
  /\ UNCHANGED << authVars, hook, section, modal, page, server >>

NextApi == \E status \in ResponseStatuses : \E body \in Bodies : Respond(status, body)

SpecApi == InitApi /\ [][NextApi]_vars

(***************************************************************************)
(* hooks/useDebounce                                                       *)
(***************************************************************************)
MaxChanges == 3
DEFAULT_DELAY == 500
SEARCH_DELAY == 300
\* time is followed in steps of Quantum milliseconds
Quantum == 100

\* the strings typed into an input, as sequences of characters
Queries == { << >>, << "a" >>, << "a", "b" >>, << "b", "c" >> }

\* the delay argument of a call of useDebounce
NoDelayArg == [given |-> FALSE, ms |-> 0]
DelayArg(ms) == [given |-> TRUE, ms |-> ms]
DelayArgs == { NoDelayArg, DelayArg(SEARCH_DELAY) }

\* delay: number = 500
delayParameter(delayArg) == IF delayArg.given THEN delayArg.ms ELSE DEFAULT_DELAY

\* setTimeout(() => setDebouncedValue(value), delay)
Timer(value, delay) == [value |-> value, delay |-> delay, elapsed |-> 0]

\* the cleanup of the effect: clearTimeout(timer)
cleanupKeepsTimer(timers) == timers

cleanup(timers) == {}

\* the first render: useState(value), then the effect
useDebounce(value, delayArg) ==
  LET delay == delayParameter(delayArg) IN
    [ mounted |-> TRUE, value |-> value, delayArg |-> delayArg, delay |-> delay,
      debouncedValue |-> value, timers |-> { Timer(value, delay) },
      stable |-> 0, changes |-> 0 ]

\* a render with a new value: cleanup of the last effect, then the effect
hookRender(h, value) ==
  [h EXCEPT !.value = value,
            !.timers = cleanup(h.timers) \cup { Timer(value, h.delay) },
            !.stable = 0,
            !.changes = h.changes + 1]

\* the timer callback: setDebouncedValue(value)
hookFire(h, t) ==
  [h EXCEPT !.debouncedValue = t.value, !.timers = h.timers \ {t}]

\* Quantum milliseconds pass; stable is the time the value has not changed
Advance(t) ==
  [t EXCEPT !.elapsed = IF t.elapsed < t.delay THEN t.elapsed + Quantum ELSE t.elapsed]
hookTick(h) ==
  [h EXCEPT !.timers = { Advance(t) : t \in h.timers },
            !.stable = IF h.stable < DEFAULT_DELAY THEN h.stable + Quantum ELSE h.stable]

DueTimers(h) == { t \in h.timers : t.elapsed >= t.delay }

InitDebounce ==
  /\ AuthAtRest
  /\ storage = NoToken
  /\ windowHref = NoPath
  /\ response = Unmounted
  /\ \E v \in Queries : \E d \in DelayArgs : hook = useDebounce(v, d)
  /\ section = Unmounted
  /\ modal = Unmounted
  /\ page = Unmounted
  /\ server = {}

\* the component renders the hook with another value
SetValue(v) ==
  /\ hook.changes < MaxChanges
  /\ v # hook.value
  /\ hook' = hookRender(hook, v)
  /\ lastOp' = Op("setValue", 0, NoToken, NoResult)
  /\ UNCHANGED << authVars, storage, windowHref, response, section, modal, page, server >>

DebounceFire(t) ==
  /\ t \in DueTimers(hook)
  /\ hook' = hookFire(hook, t)
  /\ lastOp' = Op("debounceFire", 0, NoToken, NoResult)
  /\ UNCHANGED << authVars, storage, windowHref, response, section, modal, page, server >>

DebounceTick ==
  /\ hookTick(hook) # hook
  /\ hook' = hookTick(hook)
  /\ lastOp' = Op("tick", 0, NoToken, NoResult)
  /\ UNCHANGED << authVars, storage, windowHref, response, section, modal, page, server >>

NextDebounce ==
  \/ \E v \in Queries : SetValue(v)
  \/ \E t \in hook.timers : DebounceFire(t)
  \/ DebounceTick

\* time passes, and a timer that is due fires
SpecDebounce ==
  /\ InitDebounce
  /\ [][NextDebounce]_vars
  /\ WF_vars(DebounceTick)
  /\ WF_vars(\E t \in hook.timers : DebounceFire(t))

(***************************************************************************)
(* The search sections: SupplierSearchSection, UserSearchSection and       *)
(* EmployeeSearchSection                                                   *)
(***************************************************************************)
MIN_QUERY_LENGTH == 2

SectionKinds == {"supplier", "user", "employee"}

\* the entities a search returns; only an employee carries a userId of its own
NoEntity == [id |-> 0, userId |-> 0]
Entities == { [id |-> 1, userId |-> 3], [id |-> 2, userId |-> 4] }
ResultSets == { {}, { [id |-> 1, userId |-> 3] }, Entities }

FailedToSearch == "Failed to search"

\* the section as first rendered, before its effects
mountSection(kind, isEditMode, selected) ==
  [ mounted |-> TRUE, kind |-> kind, isEditMode |-> isEditMode,
    searchResults |-> {}, isSearching |-> FALSE, showDropdown |-> FALSE,
    error |-> "", pending |-> {}, nSearches |-> 0, selected |-> selected ]

\* the search input is rendered: no entity is selected
InputShown(sec) == sec.selected = NoEntity

\* debouncedQuery.length < 2, for users also: || isEditMode
tooShortAnyLength(sec, q) == sec.kind = "user" /\ sec.isEditMode

tooShort(sec, q) ==
  Len(q) < MIN_QUERY_LENGTH \/ (sec.kind = "user" /\ sec.isEditMode)

\* the effect on [debouncedQuery], up to its await
searchEffect(sec, q) ==
  IF tooShort(sec, q)
    THEN [sec EXCEPT !.searchResults = {}, !.showDropdown = FALSE]
    ELSE [sec EXCEPT !.isSearching = TRUE, !.error = "",
                     !.pending = sec.pending \cup
                                   { [id |-> sec.nSearches + 1, query |-> q] },
                     !.nSearches = sec.nSearches + 1]

\* the effect after the await: the try branch, and the catch branch
searchResolved(sec, p, results) ==
  [sec EXCEPT !.searchResults = results, !.showDropdown = results # {},
              !.isSearching = FALSE, !.pending = sec.pending \ {p}]
searchRejected(sec, p) ==
  [sec EXCEPT !.error = FailedToSearch, !.searchResults = {},
              !.isSearching = FALSE, !.pending = sec.pending \ {p}]

\* setSearchQuery(q): a render of the hook when the query differs
setSearchQuery(h, q) == IF q = h.value THEN h ELSE hookRender(h, q)

InitSearch ==
  /\ AuthAtRest
  /\ storage = NoToken
  /\ windowHref = NoPath
  /\ response = Unmounted
  /\ hook = useDebounce(<< >>, DelayArg(SEARCH_DELAY))
  /\ \E kind \in SectionKinds : \E isEditMode \in BOOLEAN :
       \E selected \in {NoEntity} \cup (IF isEditMode THEN Entities ELSE {}) :
         section = searchEffect(mountSection(kind, isEditMode, selected), << >>)
  /\ modal = Unmounted
  /\ page = Unmounted
  /\ server = {}

\* onChange of the search input
TypeQuery(q) ==
  /\ InputShown(section)
  /\ hook.changes < MaxChanges
  /\ q # hook.value
  /\ hook' = setSearchQuery(hook, q)
  /\ lastOp' = Op("typeQuery", 0, NoToken, NoResult)
  /\ UNCHANGED << authVars, storage, windowHref, response, section, modal, page, server >>

SearchTick ==
  /\ hookTick(hook) # hook
  /\ hook' = hookTick(hook)
  /\ lastOp' = Op("tick", 0, NoToken, NoResult)
  /\ UNCHANGED << authVars, storage, windowHref, response, section, modal, page, server >>

\* the debounce timer fires; a new debouncedQuery runs the search effect
SearchDebounceFire(t) ==
  /\ t \in DueTimers(hook)
  /\ hook' = hookFire(hook, t)
  /\ section' = IF hook'.debouncedValue # hook.debouncedValue
                  THEN searchEffect(section, hook'.debouncedValue)
                  ELSE section
  /\ lastOp' = Op("debounceFire", 0, NoToken, NoResult)
  /\ UNCHANGED << authVars, storage, windowHref, response, modal, page, server >>

SearchSucceeded(p, results) ==
  /\ p \in section.pending
  /\ section' = searchResolved(section, p, results)
  /\ lastOp' = Op("searchSucceeded", p.id, NoToken, NoResult)
  /\ UNCHANGED << authVars, storage, windowHref, response, hook, modal, page, server >>

SearchFailed(p) ==
  /\ p \in section.pending
  /\ section' = searchRejected(section, p)
  /\ lastOp' = Op("searchFailed", p.id, NoToken, NoResult)
  /\ UNCHANGED << authVars, storage, windowHref, response, hook, modal, page, server >>

\* handleSelect: onSelect(entity); setSearchQuery(''); hide and empty the dropdown
SelectEntity(e) ==
  /\ InputShown(section)
  /\ section.showDropdown
  /\ e \in section.searchResults
  /\ section' = [section EXCEPT !.selected = e, !.showDropdown = FALSE,
                                !.searchResults = {}]
  /\ hook' = setSearchQuery(hook, << >>)
  /\ lastOp' = Op("selectEntity", e.id, NoToken, NoResult)
  /\ UNCHANGED << authVars, storage, windowHref, response, modal, page, server >>

\* handleClearSelection: onSelect(null); setSearchQuery('')
ClearSelection ==
  /\ section.selected # NoEntity
  /\ ~section.isEditMode
  /\ section' = [section EXCEPT !.selected = NoEntity]
  /\ hook' = setSearchQuery(hook, << >>)
  /\ lastOp' = Op("clearSelection", 0, NoToken, NoResult)
  /\ UNCHANGED << authVars, storage, windowHref, response, modal, page, server >>

NextSearch ==
  \/ \E q \in Queries : TypeQuery(q)
  \/ SearchTick
  \/ \E t \in hook.timers : SearchDebounceFire(t)
  \/ \E p \in section.pending : \E results \in ResultSets : SearchSucceeded(p, results)
  \/ \E p \in section.pending : SearchFailed(p)
  \/ \E e \in Entities : SelectEntity(e)
  \/ ClearSelection

SpecSearch == InitSearch /\ [][NextSearch]_vars

(***************************************************************************)
(* Modal forms and the Register page                                       *)
(***************************************************************************)

FormKinds == { "buyer", "expense", "employee", "employeeRecord",
               "inputCocohusk", "register" }
ModalKinds == FormKinds \ {"register"}

\* the modals that embed a search section, and the section each one embeds
SearchKinds == {"employee", "employeeRecord", "inputCocohusk"}
sectionOf(kind) ==
  CASE kind = "employee" -> "user"
    [] kind = "employeeRecord" -> "employee"
    [] kind = "inputCocohusk" -> "supplier"

\* new Date() at the time the forms are used
Today == [year |-> 2026, month |-> 11, day |-> 1]

\* String.prototype.trim on the texts a field can hold
Blank == " "
trim(s) == IF s = Blank THEN "" ELSE s

\* /^[^\s@]+@[^\s@]+\.[^\s@]+$/.test(s) on the texts an email field can hold
Emails == {"", "bad", "a@b.c"}
emailFormat(s) == s = "a@b.c"

\* parseFloat(s) on the texts an amount field can hold
Amounts == {"", "-1", "0", "8"}
parseFloat(s) ==
  CASE s = "-1" -> [nan |-> FALSE, n |-> 0 - 1]
    [] s = "0" -> [nan |-> FALSE, n |-> 0]
    [] s = "8" -> [nan |-> FALSE, n |-> 8]
    [] OTHER -> [nan |-> TRUE, n |-> 0]
\* x <= n and x < n on a JavaScript number: false when x is NaN
atMost(x, n) == ~x.nan /\ x.n <= n
below(x, n) == ~x.nan /\ x.n < n

\* the values the fields of each form can hold
Forms(kind) ==
  CASE kind = "buyer" ->
         [ name : {"", Blank, "x"}, address : {"", "x"},
           contactNumber : {"", "x"}, email : Emails ]
    [] kind = "expense" ->
         [ title : {"", Blank, "x"}, expenseType : {"", "fuel"},
           year : {0, 1999, 2026}, month : {11, 13}, day : {0, 1},
           cost : {"", "0", "8"}, status : {"", "pending"} ]
    [] kind = "employee" ->
         [ gender : {"", "male"}, birthDate : {"", "2000-01-01"},
           address : {"", "x"}, contactNumber : {"", Blank, "x"},
           position : {"", "x"}, hourlyRate : {0, 8},
           joinedDate : {"", "2026-11-01"} ]
    [] kind = "employeeRecord" ->
         [ year : {0, 2026, 2101}, month : {0, 11}, day : {1, 32},
           hours : Amounts ]
    [] kind = "inputCocohusk" ->
         [ dateReceived : {"", "2026-11-01"}, quantity : {0, 5},
           quality : {"", Blank, "fresh"}, unitPrice : {"", "0", "8"} ]
    [] kind = "register" ->
         [ firstName : {"", Blank, "x"}, lastName : {"", "x"},
           username : {"", "x"}, email : Emails,
           password : {"", "12345", "123456"},
           confirmPassword : {"", "123456"} ]

\* useState's initial form, also the form the effect sets in create mode
initialForm(kind) ==
  CASE kind = "buyer" ->
         [ name |-> "", address |-> "", contactNumber |-> "", email |-> "" ]
    [] kind = "expense" ->
         [ title |-> "", expenseType |-> "", year |-> Today.year,
           month |-> Today.month, day |-> Today.day, cost |-> "",
           status |-> "pending" ]
    [] kind = "employee" ->
         [ gender |-> "", birthDate |-> "", address |-> "",
           contactNumber |-> "", position |-> "", hourlyRate |-> 0,
           joinedDate |-> "" ]
    [] kind = "employeeRecord" ->
         [ year |-> Today.year, month |-> Today.month, day |-> Today.day,
           hours |-> "" ]
    [] kind = "inputCocohusk" ->
         [ dateReceived |-> "2026-11-01", quantity |-> 0, quality |-> "",
           unitPrice |-> "" ]
    [] kind = "register" ->
         [ firstName |-> "", lastName |-> "", username |-> "",
           email |-> "", password |-> "", confirmPassword |-> "" ]

\* the first failing check of validateForm, or Null when every check passes
Null == "null"
validateForm(kind, isEditMode, selected, f) ==
  CASE kind = "buyer" ->
         IF trim(f.name) = "" THEN "Name is required"
         ELSE IF trim(f.address) = "" THEN "Address is required"
         ELSE IF trim(f.contactNumber) = "" THEN "Contact number is required"
         ELSE IF trim(f.email) = "" THEN "Email is required"
         ELSE IF ~emailFormat(f.email) THEN "Invalid email format"
         ELSE Null
    [] kind = "expense" ->
         IF trim(f.title) = "" THEN "Title is required"
         ELSE IF f.expenseType = "" THEN "Expense type is required"
         ELSE IF f.year = 0 \/ f.year < 2000 \/ f.year > 2100
           THEN "Please enter a valid year (2000-2100)"
         ELSE IF f.month = 0 \/ f.month < 1 \/ f.month > 12
           THEN "Please select a valid month"
         ELSE IF f.day = 0 \/ f.day < 1 \/ f.day > 31
           THEN "Please enter a valid day (1-31)"
         ELSE IF f.cost = "" \/ atMost(parseFloat(f.cost), 0)
           THEN "Cost must be greater than 0"
         ELSE IF f.status = "" THEN "Status is required"
         ELSE Null
    [] kind = "employee" ->
         IF ~isEditMode /\ selected = NoEntity
           THEN "Please search and select an auth user first"
         ELSE IF f.gender = "" THEN "Gender is required"
         ELSE IF f.birthDate = "" THEN "Birth date is required"
         ELSE IF trim(f.address) = "" THEN "Address is required"
         ELSE IF trim(f.contactNumber) = "" THEN "Contact number is required"
         ELSE IF trim(f.position) = "" THEN "Position is required"
         ELSE IF f.hourlyRate <= 0 THEN "Hourly rate must be greater than 0"
         ELSE IF f.joinedDate = "" THEN "Joined date is required"
         ELSE Null
    [] kind = "employeeRecord" ->
         IF ~isEditMode /\ selected = NoEntity
           THEN "Please search and select an employee first"
         ELSE IF f.year = 0 \/ f.year < 2000 \/ f.year > 2100
           THEN "Please enter a valid year (2000-2100)"
         ELSE IF f.month = 0 \/ f.month < 1 \/ f.month > 12
           THEN "Please enter a valid month (1-12)"
         ELSE IF f.day = 0 \/ f.day < 1 \/ f.day > 31
           THEN "Please enter a valid day (1-31)"
         ELSE IF f.hours = "" \/ below(parseFloat(f.hours), 0)
           THEN "Please enter valid hours"
         ELSE Null
    [] kind = "inputCocohusk" ->
         IF ~isEditMode /\ selected = NoEntity
           THEN "Please search and select a supplier first"
         ELSE IF f.dateReceived = "" THEN "Date received is required"
         ELSE IF f.quantity <= 0 THEN "Quantity must be greater than 0"
         ELSE IF trim(f.quality) = "" THEN "Quality is required"
         ELSE IF f.unitPrice = "" \/ atMost(parseFloat(f.unitPrice), 0)
           THEN "Unit price must be greater than 0"
         ELSE Null
    [] kind = "register" ->
         IF trim(f.firstName) = "" THEN "First name is required"
         ELSE IF trim(f.lastName) = "" THEN "Last name is required"
         ELSE IF trim(f.username) = "" THEN "User name is required"
         ELSE IF trim(f.email) = "" THEN "Email is required"
         ELSE IF ~emailFormat(f.email) THEN "Invalid email format"
         ELSE IF Len(f.password) < 6
           THEN "Password must be at least 6 characters"
         ELSE IF f.password # f.confirmPassword THEN "Passwords do not match"
         ELSE Null

\* isoString.substring(0, 10), '' for a missing date
formatDateForInput(s) ==
  CASE s = "2026-11-01T08:00:00Z" -> "2026-11-01"
    [] s = "2000-01-01T00:00:00Z" -> "2000-01-01"
    [] OTHER -> s

\* the rows a page can hand to a modal for editing: one complete row and one
\* with empty fields; fk is the row's foreign key (user.id, user, supplier)
NoRow(kind) == [id |-> 0, fk |-> 0, data |-> initialForm(kind)]
EditRows(kind) ==
  CASE kind = "buyer" ->
         { [ id |-> 7, fk |-> 0,
             data |-> [ name |-> "x", address |-> "x",
                        contactNumber |-> "x", email |-> "a@b.c" ] ],
           [ id |-> 8, fk |-> 0,
             data |-> [ name |-> "x", address |-> "",
                        contactNumber |-> "", email |-> "bad" ] ] }
    [] kind = "expense" ->
         { [ id |-> 7, fk |-> 0,
             data |-> [ title |-> "x", expenseType |-> "fuel", year |-> 2026,
                        month |-> 11, day |-> 1, cost |-> "8",
                        status |-> "pending" ] ],
           [ id |-> 8, fk |-> 0,
             data |-> [ title |-> "x", expenseType |-> "fuel", year |-> 0,
                        month |-> 0, day |-> 0, cost |-> "",
                        status |-> "" ] ] }
    [] kind = "employee" ->
         { [ id |-> 7, fk |-> 3,
             data |-> [ gender |-> "male",
                        birthDate |-> "2000-01-01T00:00:00Z",
                        address |-> "x", contactNumber |-> "x",
                        position |-> "x", hourlyRate |-> 8,
                        joinedDate |-> "2026-11-01T08:00:00Z" ] ],
           [ id |-> 8, fk |-> 0,
             data |-> [ gender |-> "male", birthDate |-> "",
                        address |-> "x", contactNumber |-> "x",
                        position |-> "x", hourlyRate |-> 8,
                        joinedDate |-> "" ] ] }
    [] kind = "employeeRecord" ->
         { [ id |-> 7, fk |-> 3,
             data |-> [ year |-> 2026, month |-> 11, day |-> 1,
                        hours |-> "8" ] ],
           [ id |-> 8, fk |-> 0,
             data |-> [ year |-> 0, month |-> 0, day |-> 0,
                        hours |-> "" ] ] }
    [] kind = "inputCocohusk" ->
         { [ id |-> 7, fk |-> 3,
             data |-> [ dateReceived |-> "2026-11-01T08:00:00Z",
                        quantity |-> 5, quality |-> "fresh",
                        unitPrice |-> "8" ] ],
           [ id |-> 8, fk |-> 0,
             data |-> [ dateReceived |-> "", quantity |-> 0,
                        quality |-> "", unitPrice |-> "" ] ] }
    [] OTHER -> {}

\* the form the effect sets in edit mode: each field of the row || its default
populate(kind, row) ==
  LET d == row.data IN
  CASE kind = "expense" ->
         [d EXCEPT !.year = IF @ = 0 THEN Today.year ELSE @,
                   !.month = IF @ = 0 THEN Today.month ELSE @,
                   !.day = IF @ = 0 THEN Today.day ELSE @,
                   !.status = IF @ = "" THEN "pending" ELSE @]
    [] kind = "employeeRecord" ->
         [d EXCEPT !.year = IF @ = 0 THEN Today.year ELSE @,
                   !.month = IF @ = 0 THEN Today.month ELSE @,
                   !.day = IF @ = 0 THEN Today.day ELSE @]
    [] kind = "employee" ->
         [d EXCEPT !.birthDate = formatDateForInput(@),
                   !.joinedDate = formatDateForInput(@)]
    [] kind = "inputCocohusk" ->
         [d EXCEPT !.dateReceived = formatDateForInput(@)]
    [] OTHER -> d

\* what handleSubmit hands to onSubmit (to authService.register on Register)
NoPayload == [sent |-> FALSE, fk |-> 0, id |-> 0]
Payload(fk, id) == [sent |-> TRUE, fk |-> fk, id |-> id]

RegistrationFailed == "Registration failed. Please try again."

\* the component as first rendered; Register is a page, always shown
mountForm(kind) ==
  [ mounted |-> TRUE, kind |-> kind, isOpen |-> kind = "register",
    entity |-> NoRow(kind), formData |-> initialForm(kind), error |-> "",
    selected |-> NoEntity, isLoading |-> FALSE, offered |-> {},
    submitted |-> NoPayload ]

\* const isEditMode = !!entity
isEditMode(m) == m.entity.id # 0

\* the selection the effect shows in edit mode, made of the row's key only
placeholder(fk) == [id |-> fk, userId |-> fk]

\* the effect on [entity, isOpen]
modalEffectKeepsSelection(m) ==
  IF isEditMode(m)
    THEN [m EXCEPT !.formData = populate(m.kind, m.entity),
                   !.selected = IF m.kind \in SearchKinds /\ m.entity.fk # 0
                                  THEN placeholder(m.entity.fk) ELSE @,
                   !.error = ""]
    ELSE [m EXCEPT !.formData = initialForm(m.kind), !.error = ""]

modalEffect(m) ==
  IF isEditMode(m)
    THEN [m EXCEPT !.formData = populate(m.kind, m.entity),
                   !.selected = IF m.kind \in SearchKinds /\ m.entity.fk # 0
                                  THEN placeholder(m.entity.fk) ELSE @,
                   !.error = ""]
    ELSE [m EXCEPT !.formData = initialForm(m.kind), !.selected = NoEntity,
                   !.error = ""]

\* the submit button is not disabled
submitEnabled(m) ==
  /\ ~m.isLoading
  /\ ~(m.kind \in SearchKinds /\ ~isEditMode(m) /\ m.selected = NoEntity)

\* selected?.key || entity?.key || 0 with the key each modal submits
submitKey(m) ==
  LET key == IF m.kind = "employeeRecord" THEN m.selected.userId
                                          ELSE m.selected.id IN
  IF m.kind \notin SearchKinds THEN 0
  ELSE IF key # 0 THEN key
  ELSE m.entity.fk

\* handleSubmit: the validation error is shown and nothing else happens, or
\* the data goes to onSubmit, whose handler sets isSubmitting; Register sets
\* isLoading and clears the error before it validates
handleSubmitIgnoresError(m) ==
  [m EXCEPT !.submitted = Payload(submitKey(m), m.entity.id),
            !.error = IF m.kind = "register" THEN "" ELSE @,
            !.isLoading = TRUE]

handleSubmit(m) ==
  LET validationError ==
        validateForm(m.kind, isEditMode(m), m.selected, m.formData) IN
  IF validationError # Null
    THEN [m EXCEPT !.error = validationError,
                   !.isLoading = IF m.kind = "register" THEN FALSE ELSE @]
    ELSE [m EXCEPT !.submitted = Payload(submitKey(m), m.entity.id),
                          !.error = IF m.kind = "register" THEN "" ELSE @,
                   !.isLoading = TRUE]

\* the search section a modal shows while it is open
sectionIn(m) ==
  IF m.isOpen /\ m.kind \in SearchKinds
    THEN mountSection(sectionOf(m.kind), isEditMode(m), m.selected)
    ELSE Unmounted

\* what every step but a valid submit leaves of the last payload
seen(m) == [m EXCEPT !.submitted = NoPayload]

otherVars == << authVars, storage, windowHref, response, hook, page, server >>

InitModal ==
  /\ AuthAtRest
  /\ storage = NoToken
  /\ windowHref = NoPath
  /\ response = Unmounted
  /\ hook = Unmounted
  /\ section = Unmounted
  /\ \E kind \in FormKinds : modal = mountForm(kind)
  /\ page = Unmounted
  /\ server = {}

\* the page's openCreateModal, then the modal's effect
OpenCreate ==
  /\ modal.kind \in ModalKinds
  /\ ~modal.isOpen
  /\ modal' = modalEffect([seen(modal) EXCEPT !.isOpen = TRUE,
                                              !.entity = NoRow(modal.kind),
                                              !.offered = {}])
  /\ section' = sectionIn(modal')
  /\ lastOp' = Op("openCreate", 0, NoToken, NoResult)
  /\ UNCHANGED otherVars

\* the page's openEditModal(row), then the modal's effect
OpenEdit(row) ==
  /\ modal.kind \in ModalKinds
  /\ ~modal.isOpen
  /\ modal' = modalEffect([seen(modal) EXCEPT !.isOpen = TRUE,
                                              !.entity = row,
                                              !.offered = {}])
  /\ section' = sectionIn(modal')
  /\ lastOp' = Op("openEdit", row.id, NoToken, NoResult)
  /\ UNCHANGED otherVars

\* handleClose: setError(''), the selection is dropped, onClose(); the page
\* closes the modal and forgets the row; then the modal's effect
CloseModal ==
  /\ modal.kind \in ModalKinds
  /\ modal.isOpen
  /\ modal' = modalEffect([seen(modal) EXCEPT !.error = "",
                                              !.selected = NoEntity,
                                              !.isOpen = FALSE,
                                              !.entity = NoRow(modal.kind)])
  /\ section' = sectionIn(modal')
  /\ lastOp' = Op("closeModal", 0, NoToken, NoResult)
  /\ UNCHANGED otherVars

\* handleChange on one field
ChangeField(f) ==
  /\ modal.isOpen
  /\ Cardinality({k \in DOMAIN f : f[k] # modal.formData[k]}) = 1
  /\ modal' = [seen(modal) EXCEPT !.formData = f, !.error = ""]
  /\ lastOp' = Op("handleChange", 0, NoToken, NoResult)
  /\ UNCHANGED << otherVars, section >>

\* a search of the section comes back and its dropdown shows the results
ShowResults(results) ==
  /\ modal.isOpen
  /\ modal.kind \in SearchKinds
  /\ InputShown(section)
  /\ ~(section.kind = "user" /\ section.isEditMode)
  /\ section' = [section EXCEPT !.searchResults = results,
                                !.showDropdown = results # {}]
  /\ modal' = [seen(modal) EXCEPT !.offered = @ \cup results]
  /\ lastOp' = Op("showResults", 0, NoToken, NoResult)
  /\ UNCHANGED otherVars

\* handleSelect of the section, then the modal's handler for the selection
SelectInModal(e) ==
  /\ modal.isOpen
  /\ modal.kind \in SearchKinds
  /\ InputShown(section)
  /\ section.showDropdown
  /\ e \in section.searchResults
  /\ section' = [section EXCEPT !.selected = e, !.showDropdown = FALSE,
                                !.searchResults = {}]
  /\ modal' = [seen(modal) EXCEPT !.selected = e, !.error = ""]
  /\ lastOp' = Op("selectEntity", e.id, NoToken, NoResult)
  /\ UNCHANGED otherVars

\* handleClearSelection of the section: the modal's handler gets null
ClearInModal ==
  /\ modal.isOpen
  /\ modal.kind \in SearchKinds
  /\ modal.selected # NoEntity
  /\ ~isEditMode(modal)
  /\ ~modal.isLoading
  /\ section' = [section EXCEPT !.selected = NoEntity]
  /\ modal' = [seen(modal) EXCEPT !.selected = NoEntity, !.error = ""]
  /\ lastOp' = Op("clearSelection", 0, NoToken, NoResult)
  /\ UNCHANGED otherVars

\* the form's submit event, which a disabled submit button cannot raise
SubmitForm ==
  /\ modal.isOpen
  /\ submitEnabled(modal)
  /\ modal' = handleSubmit(seen(modal))
  /\ lastOp' = Op("handleSubmit", modal.entity.id, NoToken, NoResult)
  /\ UNCHANGED << otherVars, section >>

\* the page's handler ends: on success it closes the modal and forgets the
\* row, in both cases finally setIsSubmitting(false)
ParentDone(ok) ==
  /\ modal.kind \in ModalKinds
  /\ modal.isLoading
  /\ modal' = IF ok
                THEN modalEffect([seen(modal) EXCEPT
                                    !.isLoading = FALSE, !.isOpen = FALSE,
                                    !.entity = NoRow(modal.kind)])
                ELSE [seen(modal) EXCEPT !.isLoading = FALSE]
  /\ section' = IF ok THEN Unmounted ELSE section
  /\ lastOp' = Op("parentDone", 0, NoToken, NoResult)
  /\ UNCHANGED otherVars

\* authService.register settles: the page is left for /admin, or the error
\* is shown; finally setIsLoading(false)
RegisterDone(ok) ==
  /\ modal.kind = "register"
  /\ modal.isLoading
  /\ modal' = IF ok
                THEN [seen(modal) EXCEPT !.isLoading = FALSE,
                                         !.isOpen = FALSE]
                ELSE [seen(modal) EXCEPT !.isLoading = FALSE,
                                         !.error = RegistrationFailed]
  /\ lastOp' = Op("registerDone", 0, NoToken, NoResult)
  /\ UNCHANGED << otherVars, section >>

NextModal ==
  \/ OpenCreate
  \/ \E row \in EditRows(modal.kind) : OpenEdit(row)
  \/ CloseModal
  \/ \E f \in Forms(modal.kind) : ChangeField(f)
  \/ \E results \in ResultSets : ShowResults(results)
  \/ \E e \in Entities : SelectInModal(e)
  \/ ClearInModal
  \/ SubmitForm
  \/ \E ok \in BOOLEAN : ParentDone(ok)
  \/ \E ok \in BOOLEAN : RegisterDone(ok)

SpecModal == InitModal /\ [][NextModal]_vars

(***************************************************************************)
(* The list pages: Buyers, Employees and the output husk tab               *)
(***************************************************************************)

\* the requests one page issues in a behaviour
MaxRequests == 3

PageKinds == {"buyer", "employee", "outputHusk"}
ApiPages == {"buyer", "employee"}

\* the number of rows of mockOutputLots
MOCK_LOTS == 6

\* a complete form, and the forms a user leaves in the modal before a submit
ValidForm(kind) ==
  CASE kind = "buyer" ->
         [ name |-> "x", address |-> "x", contactNumber |-> "x",
           email |-> "a@b.c" ]
    [] kind = "employee" ->
         [ gender |-> "male", birthDate |-> "2000-01-01", address |-> "x",
           contactNumber |-> "x", position |-> "x", hourlyRate |-> 8,
           joinedDate |-> "2026-11-01" ]
    [] kind = "outputHusk" ->
         [ lotNumber |-> "x", customerName |-> "x", quantity |-> "8",
           pricePerUnit |-> "8" ]
EmptyLotForm ==
  [ lotNumber |-> "", customerName |-> "", quantity |-> "",
    pricePerUnit |-> "" ]
\* useState's initial form of the page's modal, and the page with no row selected
blank(kind) == IF kind = "outputHusk" THEN EmptyLotForm ELSE initialForm(kind)
noRow(kind) == [id |-> 0, fk |-> 0, data |-> blank(kind)]
FormSamples(kind) ==
  IF kind = "outputHusk"
    THEN { EmptyLotForm, ValidForm(kind),
           [ValidForm(kind) EXCEPT !.quantity = "0"] }
    ELSE { initialForm(kind), ValidForm(kind),
           [ValidForm(kind) EXCEPT !.address = ""] }

\* the checks at the head of OutputHuskModal.handleSubmit; Number(s) reads
\* the amounts as parseFloat does
validateLot(f) ==
  IF trim(f.lotNumber) = "" THEN "Lot number is required"
  ELSE IF trim(f.customerName) = "" THEN "Customer name is required"
  ELSE IF f.quantity = "" \/ atMost(parseFloat(f.quantity), 0)
    THEN "Valid quantity is required"
  ELSE IF f.pricePerUnit = "" \/ atMost(parseFloat(f.pricePerUnit), 0)
    THEN "Valid price per unit is required"
  ELSE Null

\* rows of a list
Row(id, fk, data) == [id |-> id, fk |-> fk, data |-> data]
Ids(list) == {list[i].id : i \in DOMAIN list}
Rows(list) == {list[i] : i \in DOMAIN list}

\* the rows of a set in the order of their ids
RECURSIVE sortById(_)
sortById(rows) ==
  IF rows = {} THEN << >>
  ELSE LET first == CHOOSE r \in rows : \A o \in rows : r.id <= o.id IN
       << first >> \o sortById(rows \ {first})

\* { ...emp, ...response.data }: the fields of the response win
merge(old, new) ==
  [k \in DOMAIN old \cup DOMAIN new |->
     IF k \in DOMAIN new THEN new[k] ELSE old[k]]

\* prev.map(x => x.id === id ? response.data : x); Employees merges instead
replaced(kind, list, id, data) ==
  [i \in DOMAIN list |->
     IF list[i].id = id
       THEN IF kind = "employee" THEN merge(list[i], data) ELSE data
       ELSE list[i]]

\* prev.filter(x => x.id !== id)
filtered(list, id) == SelectSeq(list, LAMBDA r : r.id # id)

\* [response.data, ...prev]; Employees adds the row at the end
added(kind, list, data) ==
  IF kind = "employee" THEN list \o << data >> ELSE << data >> \o list

\* the backend: its rows and the id of the next row it creates
Backend(rows, nextId) == [rows |-> rows, nextId |-> nextId]
stocked(rows) ==
  Backend(rows, 1 + CHOOSE m \in {0} \cup {r.id : r \in rows} :
                        \A r \in rows : r.id <= m)

\* a request in flight: sent, or answered by the backend and on its way back
Call(id, method, target, fk, data) ==
  [ id |-> id, method |-> method, target |-> target, fk |-> fk,
    data |-> data, phase |-> "sent", rows |-> {} ]
Mutations == {"POST", "PUT", "DELETE"}

\* what the backend does with a request, and the rows its response carries
served(b, c) ==
  CASE c.method = "GET" -> b
    [] c.method = "POST" ->
         Backend(b.rows \cup {Row(b.nextId, c.fk, c.data)}, b.nextId + 1)
    [] c.method = "PUT" ->
         Backend({IF r.id = c.target THEN Row(r.id, c.fk, c.data) ELSE r :
                    r \in b.rows}, b.nextId)
    [] c.method = "DELETE" ->
         Backend({r \in b.rows : r.id # c.target}, b.nextId)
\* a row to update or delete has to exist
accepts(b, c) ==
  c.method \in {"PUT", "DELETE"} => c.target \in {r.id : r \in b.rows}
answered(b, c) ==
  CASE c.method = "GET" -> b.rows
    [] c.method = "POST" -> {Row(b.nextId, c.fk, c.data)}
    [] c.method = "PUT" -> {Row(c.target, c.fk, c.data)}
    [] c.method = "DELETE" -> {}

\* the lots of mockOutputLots, ids 1 to MOCK_LOTS
mockOutputLots ==
  [i \in 1..MOCK_LOTS |-> Row(i, 0, ValidForm("outputHusk"))]

NoError == "null"
FailedToFetchList == "Failed to fetch buyers"

\* the page as mounted: the pages that use the API start their fetch
mountPage(kind) ==
  [ mounted |-> TRUE, kind |-> kind,
    list |-> IF kind = "outputHusk" THEN mockOutputLots ELSE << >>,
    loading |-> kind \in ApiPages, error |-> NoError,
    isModalOpen |-> FALSE, isDeleteModalOpen |-> FALSE,
    selected |-> noRow(kind), isSubmitting |-> FALSE,
    calls |-> IF kind \in ApiPages
                THEN {Call(1, "GET", 0, 0, blank(kind))} ELSE {},
    nCalls |-> IF kind \in ApiPages THEN 1 ELSE 0 ]

\* the form of the page's modal as first rendered
mountPageForm(kind) ==
  IF kind = "outputHusk"
    THEN [ mounted |-> TRUE, kind |-> kind, isOpen |-> FALSE,
           entity |-> noRow(kind), formData |-> EmptyLotForm,
           error |-> "", selected |-> NoEntity, isLoading |-> FALSE,
           offered |-> {}, submitted |-> NoPayload ]
    ELSE mountForm(kind)

\* the modal of the page with the props the page gives it, after its effect
shown(p, m) ==
  LET props == [seen(m) EXCEPT !.isOpen = p.isModalOpen,
                               !.entity = p.selected,
                               !.isLoading = p.isSubmitting] IN
  IF p.kind = "outputHusk" THEN props
  ELSE IF props.isOpen # m.isOpen \/ props.entity # m.entity
    THEN modalEffect(props)
  ELSE props

crudOther == << authVars, storage, windowHref, response, hook >>

InitCrud ==
  /\ AuthAtRest
  /\ storage = NoToken
  /\ windowHref = NoPath
  /\ response = Unmounted
  /\ hook = Unmounted
  /\ section = Unmounted
  /\ \E kind \in PageKinds :
       /\ page = mountPage(kind)
       /\ modal = mountPageForm(kind)
       /\ server = IF kind \in ApiPages THEN stocked(EditRows(kind))
                                        ELSE stocked({})

\* a new request of the page
newCall(p, method, target, fk, data) ==
  [p EXCEPT !.calls = @ \cup {Call(p.nCalls + 1, method, target, fk, data)},
            !.nCalls = @ + 1]

\* the Retry button of the error banner: fetchX again
Retry ==
  /\ page.kind \in ApiPages
  /\ page.error # NoError
  /\ page.nCalls < MaxRequests
  /\ page' = newCall([page EXCEPT !.loading = TRUE, !.error = NoError],
                     "GET", 0, 0, blank(page.kind))
  /\ modal' = seen(modal)
  /\ lastOp' = Op("fetch", 0, NoToken, NoResult)
  /\ UNCHANGED << crudOther, section, server >>

noModal(p) == ~p.isModalOpen /\ ~p.isDeleteModalOpen

\* after a step of the page: the modal re-renders and with it its section
rendered(p, m) ==
  /\ page' = p
  /\ modal' = shown(p, m)
  /\ section' = IF p.kind = "outputHusk" THEN Unmounted
                ELSE IF p.isModalOpen /\ modal.isOpen
                          /\ modal'.selected = modal.selected
                          /\ isEditMode(modal') = isEditMode(modal)
                  THEN section
                ELSE sectionIn(modal')

\* openCreateModal
PageOpenCreate ==
  /\ noModal(page)
  /\ rendered([page EXCEPT !.selected = noRow(page.kind),
                           !.isModalOpen = TRUE], modal)
  /\ lastOp' = Op("openCreate", 0, NoToken, NoResult)
  /\ UNCHANGED << crudOther, server >>

\* openEditModal(row) from the row's actions cell
PageOpenEdit(row) ==
  /\ page.kind \in ApiPages
  /\ noModal(page)
  /\ row \in Rows(page.list)
  /\ rendered([page EXCEPT !.selected = row, !.isModalOpen = TRUE],
              modal)
  /\ lastOp' = Op("openEdit", row.id, NoToken, NoResult)
  /\ UNCHANGED << crudOther, server >>

\* openDeleteModal(row) from the row's actions cell
PageOpenDelete(row) ==
  /\ page.kind \in ApiPages
  /\ noModal(page)
  /\ row \in Rows(page.list)
  /\ rendered([page EXCEPT !.selected = row, !.isDeleteModalOpen = TRUE],
              modal)
  /\ lastOp' = Op("openDelete", row.id, NoToken, NoResult)
  /\ UNCHANGED << crudOther, server >>

\* the modal's handleClose and the page's onClose
PageCloseModal ==
  /\ page.isModalOpen
  /\ rendered([page EXCEPT !.isModalOpen = FALSE,
                           !.selected = noRow(page.kind)],
              [modal EXCEPT !.error = "", !.selected = NoEntity])
  /\ lastOp' = Op("closeModal", 0, NoToken, NoResult)
  /\ UNCHANGED << crudOther, server >>

\* onClose of the delete confirmation
PageCloseDelete ==
  /\ page.isDeleteModalOpen
  /\ rendered([page EXCEPT !.isDeleteModalOpen = FALSE,
                           !.selected = noRow(page.kind)], modal)
  /\ lastOp' = Op("closeDelete", 0, NoToken, NoResult)
  /\ UNCHANGED << crudOther, server >>

\* the user's edits before a submit: handleChange, field by field
FillForm(f) ==
  /\ modal.isOpen
  /\ f # modal.formData
  /\ modal' = [seen(modal) EXCEPT !.formData = f, !.error = ""]
  /\ lastOp' = Op("handleChange", 0, NoToken, NoResult)
  /\ UNCHANGED << crudOther, section, page, server >>

\* onSubmit of the modal: handleUpdate when a row is selected, handleCreate
\* otherwise; Employees.handleCreate returns when the data has no user id
onSubmit(p, fk, data) ==
  IF p.selected.id # 0
    THEN newCall([p EXCEPT !.isSubmitting = TRUE],
                 "PUT", p.selected.id, fk, data)
  ELSE IF p.kind = "employee" /\ fk = 0 THEN p
  ELSE newCall([p EXCEPT !.isSubmitting = TRUE], "POST", 0, fk, data)

\* the form's submit event on a page that uses the API
PageSubmit ==
  LET m == handleSubmit(seen(modal)) IN
  /\ page.kind \in ApiPages
  /\ modal.isOpen
  /\ submitEnabled(modal)
  /\ m.submitted.sent => page.nCalls < MaxRequests
  /\ page' = IF m.submitted.sent
               THEN onSubmit(page, m.submitted.fk, modal.formData)
               ELSE page
  /\ modal' = [m EXCEPT !.isLoading = page'.isSubmitting]
  /\ lastOp' = Op("handleSubmit", page.selected.id, NoToken, NoResult)
  /\ UNCHANGED << crudOther, section, server >>

\* handleDelete, from the confirm button of the delete modal
PageConfirmDelete ==
  /\ page.isDeleteModalOpen
  /\ ~page.isSubmitting
  /\ page.selected.id # 0
  /\ page.nCalls < MaxRequests
  /\ rendered(newCall([page EXCEPT !.isSubmitting = TRUE],
                      "DELETE", page.selected.id, 0,
                      blank(page.kind)), modal)
  /\ lastOp' = Op("handleDelete", page.selected.id, NoToken, NoResult)
  /\ UNCHANGED << crudOther, server >>

\* the backend serves a request
ServerHandle(c) ==
  /\ c.phase = "sent"
  /\ accepts(server, c)
  /\ server' = served(server, c)
  /\ page' = [page EXCEPT !.calls = (@ \ {c}) \cup
                 {[c EXCEPT !.phase = "ok", !.rows = answered(server, c)]}]
  /\ modal' = seen(modal)
  /\ lastOp' = Op("serve", c.id, NoToken, NoResult)
  /\ UNCHANGED << crudOther, section >>

\* the await of a handler resolves: the list takes the response in
resolvedKeepsList(p, c) ==
  CASE c.method = "GET" -> [p EXCEPT !.loading = FALSE]
    [] c.method = "POST" ->
         [p EXCEPT !.isModalOpen = FALSE, !.isSubmitting = FALSE]
    [] c.method = "PUT" ->
         [p EXCEPT !.isModalOpen = FALSE, !.selected = noRow(p.kind),
                   !.isSubmitting = FALSE]
    [] c.method = "DELETE" ->
         [p EXCEPT !.isDeleteModalOpen = FALSE, !.selected = noRow(p.kind),
                   !.isSubmitting = FALSE]

resolved(p, c) ==
  CASE c.method = "GET" ->
         [p EXCEPT !.list = sortById(c.rows), !.loading = FALSE]
    [] c.method = "POST" ->
         [p EXCEPT !.list = added(p.kind, @, CHOOSE r \in c.rows : TRUE),
                   !.isModalOpen = FALSE, !.isSubmitting = FALSE]
    [] c.method = "PUT" ->
         [p EXCEPT !.list = replaced(p.kind, @, c.target,
                                     CHOOSE r \in c.rows : TRUE),
                   !.isModalOpen = FALSE, !.selected = noRow(p.kind),
                   !.isSubmitting = FALSE]
    [] c.method = "DELETE" ->
         [p EXCEPT !.list = filtered(@, c.target),
                   !.isDeleteModalOpen = FALSE, !.selected = noRow(p.kind),
                   !.isSubmitting = FALSE]

\* the await of a handler rejects: the fetch shows its error, the others
\* alert; finally the flag of the handler is cleared
rejected(p, c) ==
  IF c.method = "GET"
    THEN [p EXCEPT !.error = FailedToFetchList, !.loading = FALSE]
    ELSE [p EXCEPT !.isSubmitting = FALSE]

Deliver(c) ==
  /\ c.phase = "ok"
  /\ rendered(resolved([page EXCEPT !.calls = @ \ {c}], c), modal)
  /\ lastOp' = Op("deliver", c.id, NoToken, NoResult)
  /\ UNCHANGED << crudOther, server >>

\* the request fails, on its way to the backend or on its way back
CallFails(c) ==
  /\ rendered(rejected([page EXCEPT !.calls = @ \ {c}], c), modal)
  /\ lastOp' = Op("reject", c.id, NoToken, NoResult)
  /\ UNCHANGED << crudOther, server >>

\* OutputHuskModal.handleSubmit
handleLotSubmit(m) ==
  LET validationError == validateLot(m.formData) IN
  IF validationError # Null
    THEN [m EXCEPT !.error = validationError]
    ELSE [m EXCEPT !.submitted = Payload(0, 0), !.formData = EmptyLotForm]

\* OutputHuskTab.handleAddLot
handleAddLot(p, newLot) ==
  [p EXCEPT !.list = << Row(Len(p.list) + 1, 0, newLot) >> \o p.list,
            !.isModalOpen = FALSE]

\* the form's submit event on the output husk tab
LotSubmit ==
  LET m == handleLotSubmit(seen(modal)) IN
  /\ page.kind = "outputHusk"
  /\ modal.isOpen
  /\ m.submitted.sent => Len(page.list) < MOCK_LOTS + MaxRequests
  /\ page' = IF m.submitted.sent THEN handleAddLot(page, modal.formData)
                                 ELSE page
  /\ modal' = [m EXCEPT !.isOpen = page'.isModalOpen]
  /\ lastOp' = Op("handleSubmit", 0, NoToken, NoResult)
  /\ UNCHANGED << crudOther, section, server >>

\* the search section of the Employees modal, with the page left alone
SearchInPage ==
  /\ page.kind = "employee"
  /\ \/ \E results \in ResultSets : ShowResults(results)
     \/ \E e \in Entities : SelectInModal(e)
     \/ ClearInModal

NextCrud ==
  \/ Retry
  \/ PageOpenCreate
  \/ \E row \in Rows(page.list) : PageOpenEdit(row)
  \/ \E row \in Rows(page.list) : PageOpenDelete(row)
  \/ PageCloseModal
  \/ PageCloseDelete
  \/ \E f \in FormSamples(page.kind) : FillForm(f)
  \/ PageSubmit
  \/ PageConfirmDelete
  \/ \E c \in page.calls : ServerHandle(c)
  \/ \E c \in page.calls : Deliver(c)
  \/ \E c \in page.calls : CallFails(c)
  \/ LotSubmit
  \/ SearchInPage

SpecCrud == InitCrud /\ [][NextCrud]_vars

(***************************************************************************)
(* Claims                                                                  *)
(***************************************************************************)

\* C1: on every route under /admin the guard shows the admin layout and page
\* only when loading is false and isLoggedIn is true, shows the redirect to
\* /login when loading is false and isLoggedIn is false, and shows neither
\* while loading is true; no other route shows the admin layout.
C1_GuardedAdmin ==
  /\ \A p \in AdminPaths :
       LET out == Render(Loc(p, NoPath), loading, user) IN
         /\ out = "children" => ~loading /\ isLoggedIn(user)
         /\ ~loading /\ ~isLoggedIn(user) => out = "redirect"
         /\ loading => out \notin {"children", "redirect"}
  /\ location.pathname \in AdminPaths =>
       /\ screen = "children" <=> ~loading /\ isLoggedIn(user)
       /\ screen = "redirect" <=> ~loading /\ ~isLoggedIn(user)
  /\ location.pathname \notin AdminPaths => screen \notin {"children", "redirect"}

C1_Witness ==
  /\ location.pathname = "/admin/profile"
  /\ screen = "children"
  /\ lastOp.op = "initAuth"

\* C2 as stated: after login(token), for every token string, the token is
\* stored and isLoggedIn is true.
C2_LoginAlwaysLogsIn ==
  lastOp.op = "login" => storage = lastOp.token /\ isLoggedIn(user)

\* C2 amended: after login(token) the token is stored, for every token string;
\* the user state is set from the payload, and isLoggedIn is true, when the
\* token decodes (three parts, a payload that parses to a truthy value); when
\* it does not decode the user state is left as it was.
C2_LoginStoresToken ==
  [][ lastOp'.op = "login" =>
        /\ storage' = lastOp'.token
        /\ LET parts == Split(lastOp'.token) IN
             IF Len(parts) = 3 /\ AtobJsonParse(parts[2]).t \in {"object", "number"}
               THEN /\ isLoggedIn(user')
                    /\ user'.username = AtobJsonParse(parts[2]).username
               ELSE user' = user ]_vars

C2_Witness ==
  /\ lastOp.op = "login"
  /\ storage = lastOp.token
  /\ isLoggedIn(user)
  /\ screen = "children"

\* C3: after logout() no token is stored, user is null and isLoggedIn is
\* false; from a state with no token and no user only a login() call changes
\* either; and no admin page is shown while user is null.
C3_LogoutClears ==
  [][ /\ lastOp'.op = "logout" =>
           storage' = NoToken /\ user' = NullUser /\ ~isLoggedIn(user')
      /\ (storage = NoToken /\ user = NullUser /\ lastOp'.op # "login") =>
           storage' = NoToken /\ user' = NullUser
      /\ user' = NullUser => screen' # "children" ]_vars

C3_Witness ==
  /\ lastOp.op = "logout"
  /\ location.pathname = "/admin/profile"
  /\ screen = "redirect"
  /\ storage = NoToken
  /\ user = NullUser

\* what C4 and C5 call a token that decodes and has not expired
Dots(s) == Cardinality({ i \in 1..Len(s) : s[i] = Dot })
PayloadOf(s) ==
  LET first == CHOOSE i \in 1..Len(s) : s[i] = Dot /\ \A j \in 1..(i - 1) : s[j] # Dot
      second == CHOOSE i \in (first + 1)..Len(s) :
                  s[i] = Dot /\ \A j \in (first + 1)..(i - 1) : s[j] # Dot
  IN SubSeq(s, first + 1, second - 1)
StillValid(s, t) ==
  /\ s # NoToken
  /\ Dots(s) = 2
  /\ LET v == AtobJsonParse(PayloadOf(s)) IN
       /\ v.t = "object"
       /\ v.expT = "number"
       /\ t < v.exp * 1000

\* C4: the mount check sets user from the stored token exactly when a token
\* is stored, decodes and has not expired; after it loading is false, and
\* loading stays false for as long as this AuthProvider is mounted.
C4_InitAuth ==
  [][ /\ lastOp'.op = "initAuth" =>
           /\ ~loading'
           /\ isLoggedIn(user') <=> StillValid(storage, now)
           /\ isLoggedIn(user') =>
                user'.username = AtobJsonParse(PayloadOf(storage)).username
      /\ (~loading /\ lastOp'.op # "mount") => ~loading' ]_vars

C4_Witness ==
  /\ lastOp.op = "initAuth"
  /\ isLoggedIn(user)
  /\ ~loading
  /\ now = MaxExp * MsPerSecond - 1

\* C5: isTokenExpired(token) is false exactly when the token has three
\* dot-separated parts, its payload decodes to an object with a numeric exp,
\* and the current time in milliseconds is strictly less than exp * 1000.
C5_IsTokenExpired ==
  \A tok \in Tokens : isTokenExpired(tok, now) <=> ~StillValid(tok, now)

C5_Witness ==
  /\ now = MaxExp * MsPerSecond
  /\ isTokenExpired(Jwt(Ch("objExp", MaxExp)), now)
  /\ ~isTokenExpired(Jwt(Ch("objExp", MaxExp)), now - 1)
  /\ lastOp.op = "tick"

\* the call a step has just issued, and the call a step has just ended
Issued(r) == r.id = lastOp'.id /\ r \in requests'
Ended(r) == r.id = lastOp'.id /\ r \in requests

\* C6 as stated: the guard redirects to /login carrying the refused path P as
\* state.from, and the next successful login navigates to P, or to /admin
\* when no path was refused.
C6_NextLoginReturns ==
  [][ /\ lastOp'.op = "protectedRedirect" =>
           location' = Loc(LoginPath, location.pathname)
      /\ lastOp'.op = "login" =>
           location'.pathname = (IF requested = NoPath THEN "/admin" ELSE requested)
    ]_vars

\* C6 amended: the guard redirects to /login carrying the refused path P as
\* state.from, and a successful login navigates to the state.from of the
\* /login location its form was submitted from (P when the user submits from
\* the location the redirect led to), or to /admin when that location carries
\* none.
C6_LoginReturnsToFrom ==
  [][ /\ lastOp'.op = "protectedRedirect" =>
           location' = Loc(LoginPath, location.pathname)
      /\ lastOp'.op = "loginSubmit" =>
           \E r \in requests' : Issued(r) /\ r.from = location.from
      /\ lastOp'.op = "login" =>
           \E r \in requests :
             /\ Ended(r)
             /\ location'.pathname = (IF r.from = NoPath THEN "/admin" ELSE r.from)
    ]_vars

C6_Witness ==
  /\ lastOp.op = "login"
  /\ location.pathname = "/admin/profile"
  /\ requested = NoPath
  /\ screen = "children"

\* C7: for every call, the login call included, a response with status 401
\* removes the stored token, sends the document to /login and rejects the call
\* with the session-expired error of status 401, the body unread; the Login
\* page shows that message.
C7_Unauthorized ==
  [][ \A r \in requests :
        (r.phase = "settled" /\ r.status = 401 /\ r \notin requests'
           /\ lastOp'.id = r.id /\ lastOp'.op # "mount") =>
          /\ lastOp'.op = "callFailed"
          /\ storage' = NoToken
          /\ windowHref' = "/login"
          /\ lastOp'.result =
               [settled |-> "rejected", status |-> 401,
                message |-> "Session expired. Please login again.", bodyRead |-> FALSE,
                data |-> NoData]
          /\ (r.kind = "login" /\ r.formAlive) =>
               loginForm' = [error |-> "Session expired. Please login again.",
                             isLoading |-> FALSE]
    ]_vars

C7_Witness ==
  /\ lastOp.op = "callFailed"
  /\ lastOp.result.status = 401
  /\ loginForm.error = SessionExpired
  /\ storage = NoToken
  /\ windowHref = LoginPath

\* C8: a call whose fetch is still pending when its timer is due is aborted
\* and rejects with 'Request timeout', status 408; the timer is due once
\* 30000 ms have run since the fetch started, never earlier; once the fetch
\* has settled, with a response or with an error, the timer is cleared and
\* the call is never aborted.
C8_Timeout ==
  [][ /\ \A r \in requests' :
           /\ r.phase = "settled" => ~r.timerArmed /\ ~r.aborted
           /\ r.phase = "pending" => r.timerArmed /\ r.elapsed <= 30000
      /\ lastOp'.op = "timeout" =>
           \E r \in requests :
             /\ Ended(r)
             /\ r \notin requests'
             /\ r.phase = "pending"
             /\ r.elapsed >= 30000
             /\ lastOp'.result =
                  [settled |-> "rejected", status |-> 408,
                   message |-> "Request timeout", bodyRead |-> FALSE,
                   data |-> NoData]
      /\ lastOp'.op = "abortSettled" => FALSE
    ]_vars

C8_Witness ==
  /\ lastOp.op = "timeout"
  /\ lastOp.result.status = 408
  /\ nCalls = 1
  /\ requests = {}

\* C9: every call hands exactly one HTTP request to fetch; a call that fails
\* (timeout, network error, error status) ends with its error given to the
\* caller, and no request is issued by that step: requests are issued only by
\* a submit or by a page fetching its list.
C9_NoRetry ==
  [][ /\ nFetches' = nCalls'
      /\ nFetches' # nFetches => lastOp'.op \in {"loginSubmit", "apiGet"}
      /\ lastOp'.op \in {"timeout", "networkError", "callFailed"} =>
           /\ lastOp'.result.settled = "rejected"
           /\ \A q \in requests' : q.id # lastOp'.id
           /\ \A q \in requests' : \E r \in requests : r.id = q.id /\ r.phase = q.phase
           /\ \A r \in requests :
                (Ended(r) /\ r.kind = "login" /\ r.formAlive) =>
                  loginForm' = [error |-> lastOp'.result.message, isLoading |-> FALSE]
    ]_vars

C9_Witness ==
  /\ lastOp.op = "callFailed"
  /\ lastOp.result.status = 500
  /\ nCalls = 1
  /\ nFetches = 1
  /\ requests = {}

C11_HandleResponse ==
  response.mounted =>
    LET res == lastOp.result IN
      /\ ~Ok(response.status) /\ response.status # 401 =>
           /\ res.settled = "rejected"
           /\ res.status = response.status
           /\ res.message \in {"An error occurred", "server message"}
      /\ Ok(response.status) =>
           /\ res.settled = "resolved"
           /\ res.data.text = response.body.text

\* C12: the value useDebounce returns changes only when a timer fires, and
\* then to the value the input has had, without a change, for at least delay
\* milliseconds; no timer is kept for a value that was replaced; and once the
\* input no longer changes the returned value comes to equal it and stays so.
C12_Debounce ==
  /\ [][ /\ hook'.debouncedValue # hook.debouncedValue =>
              /\ lastOp'.op = "debounceFire"
              /\ hook'.debouncedValue = hook.value
              /\ hook'.value = hook.value
              /\ hook.stable >= hook.delay
         /\ \A t \in hook'.timers : t.value = hook'.value
       ]_vars
  /\ <>[](hook.debouncedValue = hook.value)

C12_Witness ==
  /\ lastOp.op = "debounceFire"
  /\ hook.changes = 2
  /\ hook.debouncedValue = hook.value
  /\ hook.debouncedValue = << "a", "b" >>
  /\ hook.stable = hook.delay

\* C13: a hook called without a delay argument applies a delay of 300 ms.
C13_DefaultDelay ==
  hook.mounted /\ ~hook.delayArg.given =>
    /\ hook.delay = 300
    /\ \A t \in hook.timers : t.delay = 300

\* C14: a search section issues a search only for a debounced query of at
\* least 2 characters; when the debounced query becomes shorter than that, no
\* search is issued, searchResults is emptied and the dropdown is hidden.
C14_SearchFromTwoCharacters ==
  [][ /\ \A p \in section'.pending \ section.pending :
           /\ Len(p.query) >= 2
           /\ p.query = hook'.debouncedValue
      /\ hook'.debouncedValue # hook.debouncedValue /\ Len(hook'.debouncedValue) < 2 =>
           /\ section'.pending = section.pending
           /\ section'.nSearches = section.nSearches
           /\ section'.searchResults = {}
           /\ ~section'.showDropdown
    ]_vars

C14_Witness ==
  /\ lastOp.op = "debounceFire"
  /\ Len(hook.debouncedValue) < 2
  /\ hook.changes >= 2
  /\ section.nSearches = 1
  /\ section.pending = {}
  /\ ~section.showDropdown

\* a step of the Employee, EmployeeRecord or InputCocohusk modal in create
\* mode that hands data to onSubmit
createSubmit ==
  /\ modal.kind \in SearchKinds
  /\ ~isEditMode(modal)
  /\ modal'.submitted.sent

\* C15 as stated: in create mode of the Employee, EmployeeRecord and
\* InputCocohusk modals a submit reaches onSubmit only while an entity chosen
\* from the search results is selected, the foreign key submitted equals the
\* id of that entity, and clearing the selection disables submit again.
C15_KeyIsSelectedId ==
  [][ /\ createSubmit =>
           /\ modal.selected # NoEntity
           /\ modal.selected \in modal.offered
           /\ modal'.submitted.fk = modal.selected.id
      /\ lastOp'.op = "clearSelection" => ~submitEnabled(modal') ]_vars

\* C15, amended: in create mode of the three modals a submit reaches onSubmit
\* only while an entity chosen from the search results is selected; the
\* foreign key submitted is the id of that entity in the Employee and
\* InputCocohusk modals and the userId of the selected employee in the
\* EmployeeRecord modal; clearing the selection disables submit again.
C15_KeyOfSelected ==
  [][ /\ createSubmit =>
           /\ modal.selected # NoEntity
           /\ modal.selected \in modal.offered
           /\ modal'.submitted.fk = IF modal.kind = "employeeRecord"
                                      THEN modal.selected.userId
                                      ELSE modal.selected.id
      /\ lastOp'.op = "clearSelection" => ~submitEnabled(modal') ]_vars

\* an employee record was submitted for an employee found by the search, whose
\* userId differs from its id
C15_Witness ==
  /\ modal.mounted
  /\ modal.kind = "employeeRecord"
  /\ ~isEditMode(modal)
  /\ modal.submitted.sent
  /\ modal.selected \in modal.offered
  /\ modal.submitted.fk = modal.selected.userId
  /\ modal.submitted.fk # modal.selected.id

\* C17: in every modal form and on the Register page, the parent's onSubmit
\* or the backend request is invoked only when validateForm returns null; when
\* it returns an error message, that message is stored as the form error, no
\* request is issued and the form data is left unchanged (on Register,
\* isLoading returns to false).
C17_ValidateBeforeSubmit ==
  [][ LET validationError ==
            validateForm(modal.kind, isEditMode(modal), modal.selected,
                         modal.formData) IN
      /\ modal'.submitted.sent =>
           lastOp'.op = "handleSubmit" /\ validationError = Null
      /\ lastOp'.op = "handleSubmit" /\ validationError # Null =>
           /\ modal'.error = validationError
           /\ ~modal'.submitted.sent
           /\ modal'.formData = modal.formData
           /\ modal.kind = "register" => ~modal'.isLoading ]_vars

\* a submit of an invalid form has just stored its message
C17_Witness ==
  /\ modal.mounted
  /\ lastOp.op = "handleSubmit"
  /\ modal.error # ""
  /\ modal.error = validateForm(modal.kind, isEditMode(modal), modal.selected,
                                modal.formData)
  /\ ~modal.submitted.sent
  /\ ~modal.isLoading

\* the create, update and delete requests a step issues, and the request
\* whose response a step takes in
issued ==
  {c \in page'.calls : c.phase = "sent" /\ c \notin page.calls
                         /\ c.method \in Mutations}
taken ==
  {c \in page.calls : c.phase = "ok" /\ c.method \in Mutations
                        /\ lastOp'.op = "deliver" /\ lastOp'.id = c.id}

\* the form of the modal passes validateForm
formIsValid ==
  validateForm(modal.kind, isEditMode(modal), modal.selected,
               modal.formData) = Null

\* the list shows the result of a request
shows(list, c) ==
  IF c.method = "DELETE" THEN c.target \notin Ids(list)
                         ELSE c.rows \subseteq Rows(list)

\* C16: on every CRUD screen the backend create/update/delete request is
\* issued only after the modal was opened and validation passed (a delete
\* carries no form: its modal is the delete confirmation), and after the
\* request succeeds the list shows the result of that request.
C16_OrderOfSteps ==
  [][ /\ \A c \in issued :
           IF c.method = "DELETE"
             THEN page.isDeleteModalOpen /\ c.target = page.selected.id
             ELSE /\ page.isModalOpen /\ modal.isOpen
                  /\ formIsValid
                  /\ c.data = modal.formData
      /\ \A c \in taken : shows(page'.list, c) ]_vars

\* C18: every creation, update or deletion of an entity shown in a list is
\* performed through a REST request, and the displayed list changes only
\* after that request has succeeded: while a request is pending or after it
\* fails the list is unchanged.
C18_ListChangesOnSuccess ==
  [][ page'.list # page.list =>
        \E c \in page.calls :
          /\ c.phase = "ok"
          /\ lastOp'.op = "deliver"
          /\ lastOp'.id = c.id ]_vars

=============================================================================
